---- MODULE Spec2Model ----
(***************************************************************************)
(* Model of server/src/metadata.rs: the STREAM_INFO registry, a            *)
(* RwLock<HashMap<String, LogStreamMetadata>>, its operations, the Stats   *)
(* update rule and the bootstrap load.                                     *)
(*                                                                         *)
(* A Rust String is modelled as the sequence of its UTF-8 bytes, a         *)
(* Result as <<"Ok", v>> or <<"Err", e>>, an Option as <<"Some", v>> or    *)
(* <<"None">>.  Each thread calling into the registry is a process with a  *)
(* program counter; a lock guard is held from the step that acquires it to *)
(* the step in which the function that took it returns.                    *)
(***************************************************************************)
EXTENDS Integers, Sequences, FiniteSets, TLC

\* ------------------------------------------------------------------ bounds
\* Largest value the size counter of an entry may reach in the model.
MaxSize == 2
\* Largest size_delta / compressed_delta an update is called with.
MaxDelta == 1
\* Largest field value of the Stats the unit test starts from.
MaxStat == 2
\* Longest list list_streams returns.
MaxList == 2

\* ------------------------------------------------------------- data domains
Procs == {1, 2}
NoProc == 0
Names == {"a", "b"}

\* "" , "s" and "t" as schema texts; "", "x" and "y" as alert texts.
EmptyString == << >>
SchemaTexts == {EmptyString, <<115>>}
AlertTexts == {EmptyString, <<120>>}

Ok(v) == <<"Ok", v>>
Err(e) == <<"Err", e>>
IsOk(r) == r[1] = "Ok"
IsErr(r) == r[1] = "Err"
Unit == << >>
NoRet == <<"Pending">>

None == <<"None">>
Some(v) == <<"Some", v>>

StreamMetaNotFound(name) == <<"StreamMetaNotFound", name>>
AlertNotInStore(name) == <<"AlertNotInStore", name>>
SchemaNotInStore(name) == <<"SchemaNotInStore", name>>
StorageError == <<"ObjectStorageError">>
Utf8Error == <<"FromUtf8Error">>

\* ------------------------------------------------------------------- Stats
DefaultStats == [size |-> 0, compressed_size |-> 0, prev_compressed |-> 0]

UpdateAdvancingPrev(st, size, compressed_size) ==
    [st EXCEPT !.size = @ + size,
               !.compressed_size = st.prev_compressed + compressed_size,
               !.prev_compressed = st.prev_compressed + compressed_size]

UpdateOverwritingSize(st, size, compressed_size) ==
    [st EXCEPT !.size = size,
               !.compressed_size = st.prev_compressed + compressed_size]

UpdateKeepCompressed(st, size, compressed_size) ==
    [st EXCEPT !.size = @ + size,
               !.compressed_size = @ + compressed_size]

\* Stats::update.  The fields are u64; the values of the model stay far below
\* 2^64, where += and + neither wrap nor panic.
Update(st, size, compressed_size) ==
    [st EXCEPT !.size = @ + size,
               !.compressed_size = st.prev_compressed + compressed_size]

\* LogStreamMetadata { schema, alert_config, ..Default::default() }
Metadata(schema, alert_config) ==
    [schema |-> schema, alert_config |-> alert_config, stats |-> DefaultStats]

\* ------------------------------------------------------------ HashMap ops
ContainsKey(m, k) == k \in DOMAIN m
Get(m, k) == IF k \in DOMAIN m THEN Some(m[k]) ELSE None
Insert(m, k, v) == [x \in DOMAIN m \cup {k} |-> IF x = k THEN v ELSE m[x]]
Remove(m, k) == [x \in DOMAIN m \ {k} |-> m[x]]
EmptyMap == [x \in {} |-> Metadata(EmptyString, EmptyString)]

\* -------------------------------------------------------------------- state
VARIABLES
    map,        \* STREAM_INFO's HashMap<String, LogStreamMetadata>
    readers,    \* the threads holding a read guard of the RwLock
    writer,     \* the thread holding the write guard, or NoProc
    pc,         \* where each thread is
    op,         \* the registry operation each thread was called for
    arg,        \* the parameters and locals of the running function
    ret,        \* the Result the running function has computed
    displaced,  \* what HashMap::insert / remove / get_mut handed back
    streams,    \* load: the listed streams and the one the loop is at
    fetched,    \* load: what get_alert / get_schema answered, and the
                \* alert_config and schema Results made of it
    test,       \* tests::update_stats: the Stats value under test
    window      \* history: the complete (schema, alert_config) records an
                \* entry has held since a caller reading both fields read
                \* the first of them
VARIABLES
    since,      \* history: the setters on the same stream that had made their
                \* read and not yet their write when this thread's call began
    between,    \* history: the last call of a Mutator that returned Ok
                \* between a setter's read and its write, and whether that
                \* call also began after the read
    total       \* history: per stream, the sum of the size deltas of the
                \* successful update_stats calls since its entry was written

vars == <<map, readers, writer, pc, op, arg, ret, displaced, streams, fetched,
          test, window, since, between, total>>

NoArg == [name |-> "", schema |-> EmptyString, alert_config |-> EmptyString,
          size |-> 0, compressed_size |-> 0]
NoFetch == [alert_bytes |-> NoRet, alert_config |-> NoRet,
            schema_bytes |-> NoRet, schema |-> NoRet]
NoStreams == [listed |-> NoRet, at |-> 0]
NoTest == [pc |-> "none", stats |-> DefaultStats, before |-> DefaultStats,
           size |-> 0, compressed_size |-> 0]

\* lazy_static! STREAM_INFO = RwLock::new(HashMap::new()); no thread is running.
InitRegistry ==
    /\ map = EmptyMap
    /\ readers = {}
    /\ writer = NoProc
    /\ pc = [p \in Procs |-> "idle"]
    /\ op = [p \in Procs |-> "none"]
    /\ arg = [p \in Procs |-> NoArg]
    /\ ret = [p \in Procs |-> NoRet]
    /\ displaced = [p \in Procs |-> None]
    /\ streams = [p \in Procs |-> NoStreams]
    /\ fetched = [p \in Procs |-> NoFetch]
    /\ window = [p \in Procs |-> {}]
    /\ since = [p \in Procs |-> {}]
    /\ between = [p \in Procs |-> None]
    /\ total = [n \in Names |-> 0]

Init == InitRegistry /\ test = NoTest

\* --------------------------------------------------------------- the RwLock
ReadAvailableIgnoringWriter == TRUE

\* RwLock::read: granted while no thread holds the write guard.
ReadAvailable == writer = NoProc

WriteAvailableIgnoringReaders == writer = NoProc

\* RwLock::write: granted while no thread holds any guard.
WriteAvailable == writer = NoProc /\ readers = {}

\* set_schema / set_alert between `self.alert(..)?` / `self.schema(..)?`
\* having read the other field and add_stream taking the write guard.
Setters == {"set_schema", "set_alert"}
Mutators == Setters \cup {"add_stream", "delete_stream", "update_stats"}

InGap(x) ==
    /\ op[x] \in Setters
    /\ \/ pc[x] \in {"alert_ret", "schema_ret"} /\ IsOk(ret[x])
       \/ pc[x] = "add_lock"

\* A thread is called for an operation: its parameters are bound.
Begin(p, o, a, entry) ==
    /\ pc[p] = "idle"
    /\ since' = [since EXCEPT ![p] =
                     IF o \in Mutators
                     THEN {x \in Procs \ {p} : InGap(x) /\ arg[x].name = a.name}
                     ELSE {}]
    /\ op' = [op EXCEPT ![p] = o]
    /\ arg' = [arg EXCEPT ![p] = a]
    /\ pc' = [pc EXCEPT ![p] = entry]
    /\ UNCHANGED <<map, readers, writer, ret, displaced, streams, fetched, test, window,
                   between, total>>

\* The operation returns to its caller: the thread's frame is gone.
Finish(p) ==
    /\ pc' = [pc EXCEPT ![p] = "idle"]
    /\ op' = [op EXCEPT ![p] = "none"]
    /\ arg' = [arg EXCEPT ![p] = NoArg]
    /\ ret' = [ret EXCEPT ![p] = NoRet]
    /\ displaced' = [displaced EXCEPT ![p] = None]
    /\ since' = [since EXCEPT ![p] = {}]
    /\ between' = [x \in Procs |->
                      IF x = p THEN None
                      ELSE IF /\ InGap(x)
                              /\ op[p] \in Mutators
                              /\ arg[p].name = arg[x].name
                              /\ IsOk(ret[p])
                           THEN Some([op |-> op[p], entire |-> x \in since[p]])
                           ELSE between[x]]

LockRead(p, at, next) ==
    /\ pc[p] = at
    /\ ReadAvailable
    /\ readers' = readers \cup {p}
    /\ pc' = [pc EXCEPT ![p] = next]
    /\ UNCHANGED <<map, writer, op, arg, ret, displaced, streams, fetched, test, window,
                   since, between, total>>

LockWrite(p, at, next) ==
    /\ pc[p] = at
    /\ WriteAvailable
    /\ writer' = p
    /\ pc' = [pc EXCEPT ![p] = next]
    /\ UNCHANGED <<map, readers, op, arg, ret, displaced, streams, fetched, test, window,
                   since, between, total>>

\* The (schema, alert_config) of an entry, and the history of the records an
\* entry held while a caller was between its two reads of it.
Record(meta) == <<meta.schema, meta.alert_config>>

Witnessed(stream_name, meta) ==
    [q \in Procs |->
        IF op[q] = "read_both" /\ arg[q].name = stream_name /\ window[q] # {}
        THEN window[q] \cup {Record(meta)}
        ELSE window[q]]

\* ------------------------------------------------------------------ schema
\* map.get(stream_name).ok_or(StreamMetaNotFound)?; Ok(meta.schema.clone())
SchemaResult(m, stream_name) ==
    IF ContainsKey(m, stream_name)
    THEN Ok(m[stream_name].schema)
    ELSE Err(StreamMetaNotFound(stream_name))

CallSchema(p, stream_name) ==
    /\ pc[p] = "idle"
    /\ Begin(p, "schema", [NoArg EXCEPT !.name = stream_name], "schema_lock")

SchemaLock(p) ==
    /\ pc[p] = "schema_lock"
    /\ LockRead(p, "schema_lock", "schema_get")

SchemaGet(p) ==
    /\ pc[p] = "schema_get"
    /\ ret' = [ret EXCEPT ![p] = SchemaResult(map, arg[p].name)]
    /\ pc' = [pc EXCEPT ![p] = "schema_ret"]
    /\ window' = IF op[p] = "read_both" /\ ContainsKey(map, arg[p].name)
                 THEN [window EXCEPT ![p] = {Record(map[arg[p].name])}]
                 ELSE window
    /\ UNCHANGED <<map, readers, writer, op, arg, displaced, streams, fetched, test,
                   since, between, total>>

SchemaReturn(p) ==
    /\ pc[p] = "schema_ret"
    /\ op[p] = "schema"
    /\ readers' = readers \ {p}
    /\ Finish(p)
    /\ UNCHANGED <<map, writer, streams, fetched, test, window,
                   total>>

\* ------------------------------------------------------------------- alert
AlertResultDefaulting(m, stream_name) ==
    IF ContainsKey(m, stream_name)
    THEN Ok(m[stream_name].alert_config)
    ELSE Ok(EmptyString)

\* map.get(stream_name).ok_or(StreamMetaNotFound)?; Ok(meta.alert_config.clone())
AlertResult(m, stream_name) ==
    IF ContainsKey(m, stream_name)
    THEN Ok(m[stream_name].alert_config)
    ELSE Err(StreamMetaNotFound(stream_name))

CallAlert(p, stream_name) ==
    /\ pc[p] = "idle"
    /\ Begin(p, "alert", [NoArg EXCEPT !.name = stream_name], "alert_lock")

AlertLock(p) ==
    /\ pc[p] = "alert_lock"
    /\ LockRead(p, "alert_lock", "alert_get")

AlertGet(p) ==
    /\ pc[p] = "alert_get"
    /\ ret' = [ret EXCEPT ![p] = AlertResult(map, arg[p].name)]
    /\ pc' = [pc EXCEPT ![p] = "alert_ret"]
    /\ UNCHANGED <<map, readers, writer, op, arg, displaced, streams, fetched, test, window,
                   since, between, total>>

AlertReturn(p) ==
    /\ pc[p] = "alert_ret"
    /\ op[p] = "alert"
    /\ readers' = readers \ {p}
    /\ Finish(p)
    /\ UNCHANGED <<map, writer, streams, fetched, test, window,
                   total>>

\* ------------------------------------------------ schema(), then alert()
\* The only way a caller gets both fields of a stream: schema(name)?, then
\* alert(name)?.  The schema is kept in arg[p].schema, the alert in ret[p].
CallReadBoth(p, stream_name) ==
    /\ pc[p] = "idle"
    /\ Begin(p, "read_both", [NoArg EXCEPT !.name = stream_name], "schema_lock")

ReadBothFail(p) ==
    /\ pc[p] = "schema_ret"
    /\ op[p] = "read_both"
    /\ IsErr(ret[p])
    /\ readers' = readers \ {p}
    /\ pc' = [pc EXCEPT ![p] = "read_ret"]
    /\ UNCHANGED <<map, writer, op, arg, ret, displaced, streams, fetched, test, window,
                   since, between, total>>

ReadBothNext(p) ==
    /\ pc[p] = "schema_ret"
    /\ op[p] = "read_both"
    /\ IsOk(ret[p])
    /\ readers' = readers \ {p}
    /\ arg' = [arg EXCEPT ![p].schema = ret[p][2]]
    /\ ret' = [ret EXCEPT ![p] = NoRet]
    /\ pc' = [pc EXCEPT ![p] = "alert_lock"]
    /\ UNCHANGED <<map, writer, op, displaced, streams, fetched, test, window,
                   since, between, total>>

ReadBothReturn(p) ==
    /\ op[p] = "read_both"
    /\ pc[p] \in {"alert_ret", "read_ret"}
    /\ readers' = readers \ {p}
    /\ Finish(p)
    /\ window' = [window EXCEPT ![p] = {}]
    /\ UNCHANGED <<map, writer, streams, fetched, test,
                   total>>

\* -------------------------------------------------------------- add_stream
AddStreamKeepingStats(m, stream_name, schema, alert_config) ==
    Insert(m, stream_name,
           [schema |-> schema, alert_config |-> alert_config,
            stats |-> IF ContainsKey(m, stream_name)
                      THEN m[stream_name].stats ELSE DefaultStats])

\* map.insert(stream_name, LogStreamMetadata { schema, alert_config, ..default })
AddStreamMap(m, stream_name, schema, alert_config) ==
    Insert(m, stream_name, Metadata(schema, alert_config))

CallAddStream(p, stream_name, schema, alert_config) ==
    /\ pc[p] = "idle"
    /\ Begin(p, "add_stream",
       [NoArg EXCEPT !.name = stream_name, !.schema = schema,
       !.alert_config = alert_config],
       "add_lock")

AddStreamLock(p) ==
    /\ pc[p] = "add_lock"
    /\ LockWrite(p, "add_lock", "add_insert")

AddStreamInsert(p) ==
    /\ pc[p] = "add_insert"
    /\ map' = AddStreamMap(map, arg[p].name, arg[p].schema, arg[p].alert_config)
    /\ displaced' = [displaced EXCEPT ![p] = Get(map, arg[p].name)]
    /\ ret' = [ret EXCEPT ![p] = Ok(Unit)]
    /\ pc' = [pc EXCEPT ![p] = "add_ret"]
    /\ window' = Witnessed(arg[p].name, map'[arg[p].name])
    /\ total' = [total EXCEPT ![arg[p].name] = 0]
    /\ UNCHANGED <<readers, writer, op, arg, streams, fetched, test,
                   since, between>>

\* add_stream's Ok(()) is also the result of set_schema and set_alert.
AddStreamReturn(p) ==
    /\ pc[p] = "add_ret"
    /\ writer' = NoProc
    /\ Finish(p)
    /\ UNCHANGED <<map, readers, streams, fetched, test, window,
                   total>>

\* ----------------------------------------------------------- delete_stream
DeleteStreamClearing(m, stream_name) == [x \in {} |-> m[x]]
DeleteStreamNothing(m, stream_name) == m

\* map.remove(stream_name)
DeleteStreamMap(m, stream_name) == Remove(m, stream_name)

CallDeleteStream(p, stream_name) ==
    /\ pc[p] = "idle"
    /\ Begin(p, "delete_stream", [NoArg EXCEPT !.name = stream_name], "del_lock")

DeleteStreamLock(p) ==
    /\ pc[p] = "del_lock"
    /\ LockWrite(p, "del_lock", "del_remove")

DeleteStreamRemove(p) ==
    /\ pc[p] = "del_remove"
    /\ map' = DeleteStreamMap(map, arg[p].name)
    /\ displaced' = [displaced EXCEPT ![p] = Get(map, arg[p].name)]
    /\ ret' = [ret EXCEPT ![p] = Ok(Unit)]
    /\ pc' = [pc EXCEPT ![p] = "del_ret"]
    /\ total' = [total EXCEPT ![arg[p].name] = 0]
    /\ UNCHANGED <<readers, writer, op, arg, streams, fetched, test, window,
                   since, between>>

DeleteStreamReturn(p) ==
    /\ pc[p] = "del_ret"
    /\ writer' = NoProc
    /\ Finish(p)
    /\ UNCHANGED <<map, readers, streams, fetched, test, window,
                   total>>

\* ------------------------------------------------------------ update_stats
UpdateStatsCreating(m, stream_name, size, compressed_size) ==
    IF ContainsKey(m, stream_name)
    THEN [map |-> [m EXCEPT ![stream_name].stats = Update(@, size, compressed_size)],
          ret |-> Ok(Unit)]
    ELSE [map |-> Insert(m, stream_name,
                         [Metadata(EmptyString, EmptyString)
                            EXCEPT !.stats = Update(@, size, compressed_size)]),
          ret |-> Ok(Unit)]

UpdateStatsReplacing(m, stream_name, size, compressed_size) ==
    IF ContainsKey(m, stream_name)
    THEN [map |-> Insert(m, stream_name,
                         [Metadata(EmptyString, EmptyString) EXCEPT
                            !.stats = Update(m[stream_name].stats, size,
                                             compressed_size)]),
          ret |-> Ok(Unit)]
    ELSE [map |-> m, ret |-> Err(StreamMetaNotFound(stream_name))]

\* map.get_mut(stream_name).ok_or(StreamMetaNotFound)?; stream.stats.update(..)
UpdateStatsOutcome(m, stream_name, size, compressed_size) ==
    IF ContainsKey(m, stream_name)
    THEN [map |-> [m EXCEPT ![stream_name].stats = Update(@, size, compressed_size)],
          ret |-> Ok(Unit)]
    ELSE [map |-> m, ret |-> Err(StreamMetaNotFound(stream_name))]

\* The size an entry holds, and what the update_stats calls already under way
\* will add to it: the model only starts a call that keeps size within MaxSize.
CurSize(stream_name) ==
    IF ContainsKey(map, stream_name) THEN map[stream_name].stats.size ELSE 0

RECURSIVE PendingSize(_, _)
PendingSize(ps, stream_name) ==
    IF ps = {} THEN 0
    ELSE LET q == CHOOSE x \in ps : TRUE
         IN  (IF pc[q] \in {"upd_lock", "upd_get"} /\ arg[q].name = stream_name
              THEN arg[q].size ELSE 0)
             + PendingSize(ps \ {q}, stream_name)

CallUpdateStats(p, stream_name, size, compressed_size) ==
    /\ CurSize(stream_name) + PendingSize(Procs, stream_name) + size <= MaxSize
    /\ Begin(p, "update_stats",
             [NoArg EXCEPT !.name = stream_name, !.size = size,
                           !.compressed_size = compressed_size],
             "upd_lock")

UpdateStatsLock(p) ==
    /\ pc[p] = "upd_lock"
    /\ LockWrite(p, "upd_lock", "upd_get")

UpdateStatsOut(p) ==
    UpdateStatsOutcome(map, arg[p].name, arg[p].size, arg[p].compressed_size)

UpdateStatsGet(p) ==
    /\ pc[p] = "upd_get"
    /\ map' = UpdateStatsOut(p).map
    /\ ret' = [ret EXCEPT ![p] = UpdateStatsOut(p).ret]
    /\ displaced' = [displaced EXCEPT ![p] = Get(map, arg[p].name)]
    /\ pc' = [pc EXCEPT ![p] = "upd_ret"]
    /\ total' = IF IsOk(UpdateStatsOut(p).ret)
                THEN [total EXCEPT ![arg[p].name] = @ + arg[p].size]
                ELSE total
    /\ UNCHANGED <<readers, writer, op, arg, streams, fetched, test, window,
                   since, between>>

UpdateStatsReturn(p) ==
    /\ pc[p] = "upd_ret"
    /\ writer' = NoProc
    /\ Finish(p)
    /\ UNCHANGED <<map, readers, streams, fetched, test, window,
                   total>>

\* -------------------------------------------------------------- set_schema
SetSchemaArgSwapped(a, alert_config) ==
    [a EXCEPT !.schema = alert_config, !.alert_config = a.schema]

\* self.add_stream(stream_name, schema, alert_config): the alert_config read
\* by self.alert() becomes add_stream's third parameter.
SetSchemaArg(a, alert_config) == [a EXCEPT !.alert_config = alert_config]

CallSetSchema(p, stream_name, schema) ==
    /\ pc[p] = "idle"
    /\ Begin(p, "set_schema",
       [NoArg EXCEPT !.name = stream_name, !.schema = schema],
       "alert_lock")

\* let alert_config = self.alert(&stream_name)?  -- the Err case
SetSchemaFail(p) ==
    /\ pc[p] = "alert_ret"
    /\ op[p] = "set_schema"
    /\ IsErr(ret[p])
    /\ readers' = readers \ {p}
    /\ pc' = [pc EXCEPT ![p] = "set_ret"]
    /\ UNCHANGED <<map, writer, op, arg, ret, displaced, streams, fetched, test, window,
                   since, between, total>>

SetSchemaBindHoldingGuard(p) ==
    /\ pc[p] = "alert_ret"
    /\ op[p] = "set_schema"
    /\ IsOk(ret[p])
    /\ arg' = [arg EXCEPT ![p] = SetSchemaArg(arg[p], ret[p][2])]
    /\ ret' = [ret EXCEPT ![p] = NoRet]
    /\ pc' = [pc EXCEPT ![p] = "add_lock"]
    /\ UNCHANGED <<map, readers, writer, op, displaced, streams, fetched, test,
                   window, since, between, total>>

\* let alert_config = self.alert(&stream_name)?  -- the Ok case
SetSchemaBind(p) ==
    /\ pc[p] = "alert_ret"
    /\ op[p] = "set_schema"
    /\ IsOk(ret[p])
    /\ readers' = readers \ {p}
    /\ arg' = [arg EXCEPT ![p] = SetSchemaArg(arg[p], ret[p][2])]
    /\ ret' = [ret EXCEPT ![p] = NoRet]
    /\ pc' = [pc EXCEPT ![p] = "add_lock"]
    /\ UNCHANGED <<map, writer, op, displaced, streams, fetched, test, window,
                   since, between, total>>

\* --------------------------------------------------------------- set_alert
SetAlertArgUnread(a, schema) == a

\* self.add_stream(stream_name, schema, alert_config): the schema read by
\* self.schema() becomes add_stream's second parameter.
SetAlertArg(a, schema) == [a EXCEPT !.schema = schema]

CallSetAlert(p, stream_name, alert_config) ==
    /\ pc[p] = "idle"
    /\ Begin(p, "set_alert",
       [NoArg EXCEPT !.name = stream_name, !.alert_config = alert_config],
       "schema_lock")

\* let schema = self.schema(&stream_name)?  -- the Err case
SetAlertFail(p) ==
    /\ pc[p] = "schema_ret"
    /\ op[p] = "set_alert"
    /\ IsErr(ret[p])
    /\ readers' = readers \ {p}
    /\ pc' = [pc EXCEPT ![p] = "set_ret"]
    /\ UNCHANGED <<map, writer, op, arg, ret, displaced, streams, fetched, test, window,
                   since, between, total>>

\* let schema = self.schema(&stream_name)?  -- the Ok case
SetAlertBind(p) ==
    /\ pc[p] = "schema_ret"
    /\ op[p] = "set_alert"
    /\ IsOk(ret[p])
    /\ readers' = readers \ {p}
    /\ arg' = [arg EXCEPT ![p] = SetAlertArg(arg[p], ret[p][2])]
    /\ ret' = [ret EXCEPT ![p] = NoRet]
    /\ pc' = [pc EXCEPT ![p] = "add_lock"]
    /\ UNCHANGED <<map, writer, op, displaced, streams, fetched, test, window,
                   since, between, total>>

\* set_schema / set_alert hand the StreamMetaNotFound to their caller.
SetReturn(p) ==
    /\ pc[p] = "set_ret"
    /\ Finish(p)
    /\ UNCHANGED <<map, readers, writer, streams, fetched, test, window,
                   total>>

\* ------------------------------------------------------------ parse_string
Continuation(b) == b >= 128 /\ b <= 191

\* String::from_utf8's validation: the well-formed UTF-8 byte sequences.
RECURSIVE Utf8Valid(_)
Utf8Valid(bytes) ==
    IF bytes = << >> THEN TRUE
    ELSE LET b == bytes[1]
             n == Len(bytes)
             rest(k) == Utf8Valid(SubSeq(bytes, k + 1, n))
         IN  IF b <= 127 THEN rest(1)
             ELSE IF b >= 194 /\ b <= 223
                  THEN n >= 2 /\ Continuation(bytes[2]) /\ rest(2)
             ELSE IF b = 224
                  THEN n >= 3 /\ bytes[2] >= 160 /\ bytes[2] <= 191
                       /\ Continuation(bytes[3]) /\ rest(3)
             ELSE IF (b >= 225 /\ b <= 236) \/ b = 238 \/ b = 239
                  THEN n >= 3 /\ Continuation(bytes[2])
                       /\ Continuation(bytes[3]) /\ rest(3)
             ELSE IF b = 237
                  THEN n >= 3 /\ bytes[2] >= 128 /\ bytes[2] <= 159
                       /\ Continuation(bytes[3]) /\ rest(3)
             ELSE IF b = 240
                  THEN n >= 4 /\ bytes[2] >= 144 /\ bytes[2] <= 191
                       /\ Continuation(bytes[3]) /\ Continuation(bytes[4]) /\ rest(4)
             ELSE IF b >= 241 /\ b <= 243
                  THEN n >= 4 /\ Continuation(bytes[2])
                       /\ Continuation(bytes[3]) /\ Continuation(bytes[4]) /\ rest(4)
             ELSE IF b = 244
                  THEN n >= 4 /\ bytes[2] >= 128 /\ bytes[2] <= 143
                       /\ Continuation(bytes[3]) /\ Continuation(bytes[4]) /\ rest(4)
             ELSE FALSE

ParseStringLossy(bytes) == Ok(bytes)

\* String::from_utf8(bytes.to_vec()).map_err(|e| e.into())
ParseString(bytes) == IF Utf8Valid(bytes) THEN Ok(bytes) ELSE Err(Utf8Error)

\* Result::and_then(parse_string), Result::map_err(|_| e), unwrap_or_default
AndThenParse(r) == IF IsOk(r) THEN ParseString(r[2]) ELSE r
MapErr(r, e) == IF IsOk(r) THEN r ELSE Err(e)
UnwrapOrDefault(r) == IF IsOk(r) THEN r[2] ELSE EmptyString

\* -------------------------------------------------------------------- load
\* What the storage collaborator can answer: an error, or the bytes of "s",
\* of the two-byte e-acute, or the ill-formed 0xC3 0x28.
Blobs == {<<115>>, <<195, 169>>, <<195, 40>>}
FetchResults == {Err(StorageError)} \cup {Ok(b) : b \in Blobs}
Lists(names) == UNION {[1..n -> names] : n \in 0..MaxList}
ListResults(names) == {Err(StorageError)} \cup {Ok(l) : l \in Lists(names)}

\* storage.get_alert(..).await.map_err(..).and_then(parse_string).map_err(..)
AlertConfigResult(fetch, name) == MapErr(AndThenParse(fetch), AlertNotInStore(name))

\* storage.get_schema(..).await.map_err(..).and_then(parse_string).map_err(..)
SchemaFetchResult(fetch, name) == MapErr(AndThenParse(fetch), SchemaNotInStore(name))

\* LogStreamMetadata { schema: schema.unwrap_or_default(),
\*                     alert_config: alert_config.unwrap_or_default(), ..default }
LoadMetadata(schema, alert_config) ==
    [schema |-> UnwrapOrDefault(schema),
     alert_config |-> UnwrapOrDefault(alert_config),
     stats |-> DefaultStats]

LoadMapKeepingEntry(m, name, schema, alert_config) ==
    IF ContainsKey(m, name) THEN m
    ELSE Insert(m, name, LoadMetadata(schema, alert_config))

\* map.insert(stream.name.clone(), metadata)
LoadMap(m, name, schema, alert_config) ==
    Insert(m, name, LoadMetadata(schema, alert_config))

\* The stream the for loop is at.
Stream(p) == streams[p].listed[2][streams[p].at]

CallLoad(p) ==
    /\ pc[p] = "idle"
    /\ Begin(p, "load", NoArg, "load_list")

\* storage.list_streams().await
LoadList(p, listed) ==
    /\ pc[p] = "load_list"
    /\ streams' = [streams EXCEPT ![p] = [listed |-> listed, at |-> 0]]
    /\ pc' = [pc EXCEPT ![p] = "load_try"]
    /\ UNCHANGED <<map, readers, writer, op, arg, ret, displaced, fetched, test, window,
                   since, between, total>>

LoadListErrIgnored(p) ==
    /\ pc[p] = "load_try"
    /\ IsErr(streams[p].listed)
    /\ ret' = [ret EXCEPT ![p] = Ok(Unit)]
    /\ pc' = [pc EXCEPT ![p] = "load_ret"]
    /\ UNCHANGED <<map, readers, writer, op, arg, displaced, streams, fetched, test, window,
                   since, between, total>>

\* the ? after list_streams().await, the Err case: load returns the failure
LoadListErr(p) ==
    /\ pc[p] = "load_try"
    /\ IsErr(streams[p].listed)
    /\ ret' = [ret EXCEPT ![p] = streams[p].listed]
    /\ pc' = [pc EXCEPT ![p] = "load_ret"]
    /\ UNCHANGED <<map, readers, writer, op, arg, displaced, streams, fetched, test, window,
                   since, between, total>>

\* the ? after list_streams().await, the Ok case: the for loop starts
LoadListOk(p) ==
    /\ pc[p] = "load_try"
    /\ IsOk(streams[p].listed)
    /\ IF streams[p].listed[2] = << >>
       THEN /\ ret' = [ret EXCEPT ![p] = Ok(Unit)]
            /\ pc' = [pc EXCEPT ![p] = "load_ret"]
            /\ streams' = streams
       ELSE /\ ret' = ret
            /\ pc' = [pc EXCEPT ![p] = "load_get_alert"]
            /\ streams' = [streams EXCEPT ![p].at = 1]
    /\ UNCHANGED <<map, readers, writer, op, arg, displaced, fetched, test, window,
                   since, between, total>>

LoadGetAlert(p, fetch) ==
    /\ pc[p] = "load_get_alert"
    /\ fetched' = [fetched EXCEPT ![p].alert_bytes = fetch,
                                  ![p].alert_config = AlertConfigResult(fetch, Stream(p))]
    /\ pc' = [pc EXCEPT ![p] = "load_get_schema"]
    /\ UNCHANGED <<map, readers, writer, op, arg, ret, displaced, streams, test, window,
                   since, between, total>>

LoadGetSchema(p, fetch) ==
    /\ pc[p] = "load_get_schema"
    /\ fetched' = [fetched EXCEPT ![p].schema_bytes = fetch,
                                  ![p].schema = SchemaFetchResult(fetch, Stream(p))]
    /\ pc' = [pc EXCEPT ![p] = "load_lock"]
    /\ UNCHANGED <<map, readers, writer, op, arg, ret, displaced, streams, test, window,
                   since, between, total>>

LoadLock(p) ==
    /\ pc[p] = "load_lock"
    /\ LockWrite(p, "load_lock", "load_insert")

LoadInsert(p) ==
    /\ pc[p] = "load_insert"
    /\ map' = LoadMap(map, Stream(p), fetched[p].schema, fetched[p].alert_config)
    /\ displaced' = [displaced EXCEPT ![p] = Get(map, Stream(p))]
    /\ pc' = [pc EXCEPT ![p] = "load_unlock"]
    /\ window' = Witnessed(Stream(p), map'[Stream(p)])
    /\ total' = [total EXCEPT ![Stream(p)] = 0]
    /\ UNCHANGED <<readers, writer, op, arg, ret, streams, fetched, test,
                   since, between>>

LoadUnlockKeepingGuard(p) ==
    /\ pc[p] = "load_unlock"
    /\ fetched' = [fetched EXCEPT ![p] = NoFetch]
    /\ displaced' = [displaced EXCEPT ![p] = None]
    /\ IF streams[p].at = Len(streams[p].listed[2])
       THEN /\ ret' = [ret EXCEPT ![p] = Ok(Unit)]
            /\ pc' = [pc EXCEPT ![p] = "load_ret"]
            /\ streams' = streams
       ELSE /\ ret' = ret
            /\ pc' = [pc EXCEPT ![p] = "load_get_alert"]
            /\ streams' = [streams EXCEPT ![p].at = @ + 1]
    /\ UNCHANGED <<map, readers, writer, op, arg, test, window,
                   since, between, total>>

\* The end of the loop body drops the guard; the loop goes on or load is over.
LoadUnlock(p) ==
    /\ pc[p] = "load_unlock"
    /\ writer' = NoProc
    /\ fetched' = [fetched EXCEPT ![p] = NoFetch]
    /\ displaced' = [displaced EXCEPT ![p] = None]
    /\ IF streams[p].at = Len(streams[p].listed[2])
       THEN /\ ret' = [ret EXCEPT ![p] = Ok(Unit)]
            /\ pc' = [pc EXCEPT ![p] = "load_ret"]
            /\ streams' = streams
       ELSE /\ ret' = ret
            /\ pc' = [pc EXCEPT ![p] = "load_get_alert"]
            /\ streams' = [streams EXCEPT ![p].at = @ + 1]
    /\ UNCHANGED <<map, readers, op, arg, test, window,
                   since, between, total>>

LoadReturn(p) ==
    /\ pc[p] = "load_ret"
    /\ Finish(p)
    /\ streams' = [streams EXCEPT ![p] = NoStreams]
    /\ UNCHANGED <<map, readers, writer, fetched, test, window,
                   total>>

\* ----------------------------------------------------- tests::update_stats
\* Every small starting value, and the test's own #[case::some(1024, 512, 2048)].
StatsValues ==
    [size : 0..MaxStat, compressed_size : 0..MaxStat, prev_compressed : 0..MaxStat]
    \cup {[size |-> 1024, compressed_size |-> 512, prev_compressed |-> 2048]}

\* Every small pair of deltas, and the test's own stats.update(2056, 2000).
TestDeltas == ((0..MaxStat) \X (0..MaxStat)) \cup {<<2056, 2000>>}

\* let mut stats = Stats { size, compressed_size, prev_compressed };
InitTest ==
    /\ InitRegistry
    /\ test \in {[pc |-> "constructed", stats |-> st, before |-> st,
                  size |-> 0, compressed_size |-> 0] : st \in StatsValues}

\* stats.update(size, compressed_size);
TestUpdate(size, compressed_size) ==
    /\ test.pc = "constructed"
    /\ test' = [pc |-> "updated", before |-> test.stats,
                stats |-> Update(test.stats, size, compressed_size),
                size |-> size, compressed_size |-> compressed_size]
    /\ UNCHANGED <<map, readers, writer, pc, op, arg, ret, displaced, streams,
                   fetched, window,
                   since, between, total>>

\* ----------------------------------------------------------- specifications
Deltas == 0..MaxDelta

\* The calls a thread may make, by kind, with the sets their parameters are
\* drawn from.
ReaderCall(p, names) ==
    \/ \E n \in names : CallSchema(p, n)
    \/ \E n \in names : CallAlert(p, n)

WriterCall(p, names, schemas, alerts, deltas) ==
    \/ \E n \in names, s \in schemas, a \in alerts : CallAddStream(p, n, s, a)
    \/ \E n \in names : CallDeleteStream(p, n)
    \/ \E n \in names, sd \in deltas, cd \in deltas : CallUpdateStats(p, n, sd, cd)

SetterCall(p, names, schemas, alerts) ==
    \/ \E n \in names, s \in schemas : CallSetSchema(p, n, s)
    \/ \E n \in names, a \in alerts : CallSetAlert(p, n, a)

\* The steps of the functions once called.
ReaderRun(p) ==
    \/ SchemaLock(p)
    \/ SchemaGet(p)
    \/ SchemaReturn(p)
    \/ AlertLock(p)
    \/ AlertGet(p)
    \/ AlertReturn(p)

WriterRun(p) ==
    \/ AddStreamLock(p)
    \/ AddStreamInsert(p)
    \/ AddStreamReturn(p)
    \/ DeleteStreamLock(p)
    \/ DeleteStreamRemove(p)
    \/ DeleteStreamReturn(p)
    \/ UpdateStatsLock(p)
    \/ UpdateStatsGet(p)
    \/ UpdateStatsReturn(p)

SetterRun(p) ==
    \/ SetSchemaFail(p)
    \/ SetSchemaBind(p)
    \/ SetAlertFail(p)
    \/ SetAlertBind(p)
    \/ SetReturn(p)

LoadStep(p, names, fetches) ==
    \/ CallLoad(p)
    \/ \E listed \in ListResults(names) : LoadList(p, listed)
    \/ LoadListErr(p)
    \/ LoadListOk(p)
    \/ \E fetch \in fetches : LoadGetAlert(p, fetch)
    \/ \E fetch \in fetches : LoadGetSchema(p, fetch)
    \/ LoadLock(p)
    \/ LoadInsert(p)
    \/ LoadUnlock(p)
    \/ LoadReturn(p)

\* A caller that wants a stream's whole record reads it field by field.
ReadBothStep(p, names) ==
    \/ \E n \in names : CallReadBoth(p, n)
    \/ ReadBothFail(p)
    \/ ReadBothNext(p)
    \/ ReadBothReturn(p)

Run(p) == ReaderRun(p) \/ WriterRun(p) \/ SetterRun(p)

\* Two threads call the operations of the registry at any time, on one key.
Next ==
    \E p \in Procs :
        \/ ReaderCall(p, {"a"})
        \/ WriterCall(p, {"a"}, SchemaTexts, AlertTexts, Deltas)
        \/ SetterCall(p, {"a"}, SchemaTexts, AlertTexts)
        \/ Run(p)

Spec == Init /\ [][Next]_vars

\* Two threads call every operation, the bootstrap load too, with one value
\* for each parameter: what is left is the order of the lock's grants.
NextLock ==
    \E p \in Procs :
        \/ ReaderCall(p, {"a"})
        \/ WriterCall(p, {"a"}, {<<115>>}, {<<120>>}, {1})
        \/ SetterCall(p, {"a"}, {<<116>>}, {<<121>>})
        \/ LoadStep(p, {"a"}, {Err(StorageError), Ok(<<115>>)})
        \/ Run(p)

SpecLock == Init /\ [][NextLock]_vars

\* Two threads call the readers, the writers and the setters on one key; the
\* setters write texts that add_stream does not.
NextRace ==
    \E p \in Procs :
        \/ ReaderCall(p, {"a"})
        \/ WriterCall(p, {"a"}, {<<115>>}, {<<120>>}, {1})
        \/ SetterCall(p, {"a"}, {<<116>>}, {<<121>>})
        \/ Run(p)

SpecRace == Init /\ [][NextRace]_vars

\* The same two threads, scheduled fairly: a thread that can take a step
\* of its call takes it, and a thread whose request of the lock can be
\* granted again and again is granted it.
LockSteps(p) ==
    \/ SchemaLock(p)
    \/ AlertLock(p)
    \/ AddStreamLock(p)
    \/ DeleteStreamLock(p)
    \/ UpdateStatsLock(p)

Fairness == \A p \in Procs : WF_vars(Run(p)) /\ SF_vars(LockSteps(p))

SpecLive == Init /\ [][NextRace]_vars /\ Fairness

\* One thread alone: no operation interleaves with another.
NextSeq ==
    \/ ReaderCall(1, Names)
    \/ WriterCall(1, Names, SchemaTexts, AlertTexts, Deltas)
    \/ SetterCall(1, Names, SchemaTexts, AlertTexts)
    \/ Run(1)

SpecSeq == Init /\ [][NextSeq]_vars

\* One thread alone that also runs the bootstrap load, over a registry that
\* earlier calls may have filled.
NextLoad ==
    \/ LoadStep(1, Names, FetchResults)
    \/ WriterCall(1, Names, {<<116>>}, {<<121>>}, {1})
    \/ WriterRun(1)

SpecLoad == Init /\ [][NextLoad]_vars

\* Thread 1 reads, field by field or one field; thread 2 writes.
NextRead ==
    \/ ReadBothStep(1, {"a"})
    \/ ReaderCall(1, {"a"})
    \/ WriterCall(2, {"a"}, SchemaTexts, AlertTexts, Deltas)
    \/ SetterCall(2, {"a"}, SchemaTexts, AlertTexts)
    \/ \E p \in Procs : Run(p)

SpecRead == Init /\ [][NextRead]_vars

\* The unit test of Stats::update from every starting value.
NextTest == \E d \in TestDeltas : TestUpdate(d[1], d[2])

SpecTest == InitTest /\ [][NextTest]_vars

\* ================================================================== claims
Stepped(p, from, to) == pc[p] = from /\ pc'[p] = to
Zero == [size |-> 0, compressed_size |-> 0, prev_compressed |-> 0]

\* C1: Stats.update(size_delta, compressed_delta), from any starting
\* {size, compressed_size, prev_compressed}, yields size + size_delta and
\* prev_compressed + compressed_delta (the old compressed_size is discarded)
\* and leaves prev_compressed as it was.
C1_UpdateRule ==
    test.pc = "updated" =>
        /\ test.stats.size = test.before.size + test.size
        /\ test.stats.compressed_size =
               test.before.prev_compressed + test.compressed_size
        /\ test.stats.prev_compressed = test.before.prev_compressed

C1_Witness ==
    /\ test.pc = "updated"
    /\ test.before = [size |-> 1024, compressed_size |-> 512, prev_compressed |-> 2048]
    /\ test.stats = [size |-> 3080, compressed_size |-> 4048, prev_compressed |-> 2048]

\* C2: add_stream(name, schema, alert) in any registry state succeeds and
\* leaves the entry for name as exactly {schema, alert, all-zero stats},
\* whatever was there before; every other entry is unchanged; on an empty
\* registry the map is that single entry.
C2_AddStream ==
    [][\A p \in Procs :
          Stepped(p, "add_insert", "add_ret") =>
              /\ ret'[p] = Ok(Unit)
              /\ DOMAIN map' = DOMAIN map \cup {arg[p].name}
              /\ map'[arg[p].name] =
                     [schema |-> arg[p].schema,
                      alert_config |-> arg[p].alert_config,
                      stats |-> Zero]
              /\ \A n \in DOMAIN map \ {arg[p].name} : map'[n] = map[n]
              /\ (DOMAIN map = {} => DOMAIN map' = {arg[p].name})]_vars

C2_Witness ==
    \E p \in Procs :
        /\ pc[p] = "add_ret"
        /\ op[p] = "add_stream"
        /\ ret[p] = Ok(Unit)
        /\ displaced[p] # None
        /\ displaced[p][2].stats.size > 0
        /\ displaced[p][2].schema # arg[p].schema
        /\ displaced[p][2].alert_config # arg[p].alert_config
        /\ map[arg[p].name] = [schema |-> arg[p].schema,
                               alert_config |-> arg[p].alert_config,
                               stats |-> Zero]
        /\ \E n \in DOMAIN map : n # arg[p].name /\ map[n].stats.size > 0

\* C3: delete_stream(name) always succeeds; afterwards there is no entry for
\* name and every other entry is unchanged; with name absent the registry is
\* left as it was.
C3_DeleteStream ==
    [][\A p \in Procs :
          Stepped(p, "del_remove", "del_ret") =>
              /\ ret'[p] = Ok(Unit)
              /\ DOMAIN map' = DOMAIN map \ {arg[p].name}
              /\ \A n \in DOMAIN map' : map'[n] = map[n]
              /\ (arg[p].name \notin DOMAIN map => map' = map)]_vars

C3_Witness ==
    \E p \in Procs :
        /\ pc[p] = "del_ret"
        /\ ret[p] = Ok(Unit)
        /\ displaced[p] = None
        /\ DOMAIN map # {}
        /\ arg[p].name \notin DOMAIN map

\* C4: schema(name), alert(name) and update_stats(name, s, c) fail with
\* StreamMetaNotFound(name) when the registry has no entry for name, and
\* then leave the whole registry unchanged.
C4_NotFound ==
    [][\A p \in Procs :
          /\ arg[p].name \notin DOMAIN map
          /\ \/ Stepped(p, "schema_get", "schema_ret")
             \/ Stepped(p, "alert_get", "alert_ret")
             \/ Stepped(p, "upd_get", "upd_ret")
          => /\ ret'[p] = Err(StreamMetaNotFound(arg[p].name))
             /\ map' = map]_vars

C4_Witness ==
    \E p \in Procs :
        /\ pc[p] = "upd_ret"
        /\ arg[p].size > 0
        /\ ret[p] = Err(StreamMetaNotFound(arg[p].name))
        /\ arg[p].name \notin DOMAIN map
        /\ \E n \in DOMAIN map : map[n].stats.size > 0

\* C5: with no other operation interleaved, set_schema(name, S) on an entry
\* {_, A, stats} leaves {S, A, zero stats} and set_alert(name, A') on an entry
\* {S0, _, stats} leaves {S0, A', zero stats}.
C5_Setters ==
    [][\A p \in Procs :
          Stepped(p, "add_insert", "add_ret") =>
              /\ op[p] = "set_schema" =>
                    /\ arg[p].name \in DOMAIN map
                    /\ map'[arg[p].name] =
                           [schema |-> arg[p].schema,
                            alert_config |-> map[arg[p].name].alert_config,
                            stats |-> Zero]
              /\ op[p] = "set_alert" =>
                    /\ arg[p].name \in DOMAIN map
                    /\ map'[arg[p].name] =
                           [schema |-> map[arg[p].name].schema,
                            alert_config |-> arg[p].alert_config,
                            stats |-> Zero]]_vars

C5_Witness ==
    \E p \in Procs :
        /\ pc[p] = "add_ret"
        /\ op[p] = "set_schema"
        /\ displaced[p] # None
        /\ displaced[p][2].stats.size > 0
        /\ displaced[p][2].stats.compressed_size > 0
        /\ displaced[p][2].schema # arg[p].schema
        /\ displaced[p][2].alert_config # EmptyString
        /\ map[arg[p].name] = [schema |-> arg[p].schema,
                               alert_config |-> displaced[p][2].alert_config,
                               stats |-> Zero]

\* C6: set_schema / set_alert on a name with no entry fail with
\* StreamMetaNotFound(name): the write step of add_stream is never reached,
\* no entry is created and the registry is unchanged.
C6_SetterNotFound ==
    /\ [](\A p \in Procs :
            op[p] \in Setters =>
                /\ pc[p] \in {"add_lock", "add_insert"} => arg[p].name \in DOMAIN map
                /\ pc[p] \in {"alert_ret", "schema_ret"} /\ arg[p].name \notin DOMAIN map
                       => ret[p] = Err(StreamMetaNotFound(arg[p].name))
                /\ pc[p] = "set_ret" =>
                       /\ ret[p] = Err(StreamMetaNotFound(arg[p].name))
                       /\ arg[p].name \notin DOMAIN map)
    /\ [][\A p \in Procs :
            op'[p] \in Setters /\ pc'[p] # "add_ret" => map' = map]_vars
    /\ [][\A p \in Procs : pc[p] = "set_ret" => map' = map]_vars

C6_Witness ==
    \E p \in Procs :
        /\ pc[p] = "set_ret"
        /\ op[p] = "set_schema"
        /\ arg[p].schema # EmptyString
        /\ ret[p] = Err(StreamMetaNotFound(arg[p].name))
        /\ arg[p].name \notin DOMAIN map
        /\ DOMAIN map # {}

\* The ill-formed byte sequences among Blobs (tests::test_bad_parse_string),
\* and the text the spec's fallback rule gives a fetch.
IllFormed == {<<195, 40>>}
Fallback(fetch) ==
    IF IsOk(fetch) /\ fetch[2] \notin IllFormed THEN fetch[2] ELSE EmptyString

\* C7: load succeeds whenever list_streams succeeds; for every listed stream
\* and each field on its own, a failed fetch or bytes that are not UTF-8 give
\* the empty string (the other field keeps its fetched text); when load
\* returns every listed stream has an entry with zero stats.
C7_LoadTolerant ==
    \A p \in Procs :
        /\ pc[p] = "load_unlock" =>
               map[Stream(p)] = [schema |-> Fallback(fetched[p].schema_bytes),
                                 alert_config |-> Fallback(fetched[p].alert_bytes),
                                 stats |-> Zero]
        /\ IsOk(streams[p].listed) => ~IsErr(ret[p])
        /\ pc[p] = "load_ret" /\ IsOk(streams[p].listed) =>
               /\ ret[p] = Ok(Unit)
               /\ \A i \in 1..Len(streams[p].listed[2]) :
                      /\ streams[p].listed[2][i] \in DOMAIN map
                      /\ map[streams[p].listed[2][i]].stats = Zero
                      /\ map[streams[p].listed[2][i]].schema
                             \in {Fallback(f) : f \in FetchResults}
                      /\ map[streams[p].listed[2][i]].alert_config
                             \in {Fallback(f) : f \in FetchResults}

C7_Witness ==
    \E p \in Procs :
        /\ pc[p] = "load_unlock"
        /\ streams[p].at = 2
        /\ fetched[p].alert_bytes = Ok(<<195, 40>>)
        /\ fetched[p].schema_bytes = Ok(<<195, 169>>)
        /\ displaced[p] # None
        /\ displaced[p][2].stats.size > 0
        /\ map[Stream(p)] = [schema |-> <<195, 169>>,
                             alert_config |-> EmptyString,
                             stats |-> Zero]

\* C8: if list_streams fails, load returns that failure and inserts nothing:
\* the registry after the failed load is the registry before it.
C8_ListFailure ==
    /\ [](\A p \in Procs :
            IsErr(streams[p].listed) =>
                /\ pc[p] \in {"load_try", "load_ret"}
                /\ pc[p] = "load_ret" => ret[p] = streams[p].listed)
    /\ [][\A p \in Procs :
            /\ op'[p] = "load"
            /\ pc'[p] \in {"load_list", "load_try"} \/ IsErr(streams'[p].listed)
            => map' = map]_vars
    /\ [][\A p \in Procs :
            op[p] = "load" /\ IsErr(streams[p].listed) => map' = map]_vars

C8_Witness ==
    \E p \in Procs :
        /\ pc[p] = "load_ret"
        /\ ret[p] = Err(StorageError)
        /\ \E n \in DOMAIN map : map[n].stats.size > 0

\* The threads inside a section guarded by the write / the read guard.
WriteHolders ==
    {p \in Procs : pc[p] \in {"add_insert", "add_ret", "del_remove", "del_ret",
                              "upd_get", "upd_ret", "load_insert", "load_unlock"}}
ReadHolders ==
    {p \in Procs : pc[p] \in {"schema_get", "schema_ret", "alert_get", "alert_ret"}}

\* C9: at most one operation holds the registry in write mode and no reader
\* holds it while a writer does; several readers can hold it together; the
\* map only changes in the single step of the one thread that holds the
\* write guard, with no reader inside.
C9_LockDiscipline ==
    /\ [](/\ Cardinality(WriteHolders) <= 1
          /\ WriteHolders # {} => ReadHolders = {}
          /\ readers = ReadHolders
          /\ WriteHolders = (IF writer = NoProc THEN {} ELSE {writer}))
    /\ [][map' # map =>
            \E p \in Procs :
                /\ pc[p] \in {"add_insert", "del_remove", "upd_get", "load_insert"}
                /\ pc'[p] # pc[p]
                /\ WriteHolders = {p}
                /\ ReadHolders = {}
                /\ \A q \in Procs \ {p} : pc'[q] = pc[q]]_vars

C9_Witness ==
    /\ Cardinality(ReadHolders) >= 2
    /\ \A p \in ReadHolders : pc[p] \in {"schema_ret", "alert_ret"} /\ IsOk(ret[p])

\* C10 as stated: the (schema, alert_config) a reader obtains through
\* schema(name) and alert(name) is a complete record the entry held, never a
\* mix of an old schema with a new alert_config.
C10_NoMixedPair ==
    \A p \in Procs :
        op[p] = "read_both" /\ pc[p] = "alert_ret" /\ IsOk(ret[p]) =>
            <<arg[p].schema, ret[p][2]>> \in window[p]

\* C10 as amended: each single schema(name) / alert(name) call returns the
\* field of the complete record that is in the registry for as long as the
\* call holds its read guard, so each field a reader obtains is that of the
\* previous or of the next complete record; the pair made of the two calls'
\* results need not be one record.
C10_WholeRecordPerCall ==
    \A p \in Procs :
        /\ pc[p] = "schema_ret" /\ IsOk(ret[p]) =>
               /\ arg[p].name \in DOMAIN map
               /\ ret[p][2] = map[arg[p].name].schema
        /\ pc[p] = "alert_ret" /\ IsOk(ret[p]) =>
               /\ arg[p].name \in DOMAIN map
               /\ ret[p][2] = map[arg[p].name].alert_config
        /\ op[p] = "read_both" /\ pc[p] = "alert_ret" /\ IsOk(ret[p]) =>
               /\ arg[p].schema \in {r[1] : r \in window[p]}
               /\ Record(map[arg[p].name]) \in window[p]

C10_Witness ==
    \E p \in Procs :
        /\ op[p] = "read_both"
        /\ pc[p] = "alert_ret"
        /\ IsOk(ret[p])
        /\ Cardinality(window[p]) = 2
        /\ <<arg[p].schema, ret[p][2]>> \notin window[p]

\* The last call that returned Ok between the setter's read and its write was
\* this operation, and it ran from call to return between the two.
RanBetween(p, o) == between[p] = Some([op |-> o, entire |-> TRUE])

\* C11: set_schema / set_alert are not atomic with respect to delete_stream.
\* When delete_stream(name) runs entirely between the setter's read and its
\* write, the setter's write finds no entry and still inserts one, made of
\* the new value and of the other field as read before the deletion; the
\* setter returns Ok and its return leaves that entry in the registry.
C11_Resurrection ==
    /\ [][\A p \in Procs :
            /\ op[p] \in Setters
            /\ Stepped(p, "add_insert", "add_ret")
            /\ RanBetween(p, "delete_stream")
            => /\ arg[p].name \notin DOMAIN map
               /\ arg[p].name \in DOMAIN map'
               /\ map'[arg[p].name] = [schema |-> arg[p].schema,
                                       alert_config |-> arg[p].alert_config,
                                       stats |-> Zero]
               /\ ret'[p] = Ok(Unit)]_vars
    /\ [][\A p \in Procs :
            op[p] \in Setters /\ Stepped(p, "add_ret", "idle") =>
                /\ ret[p] = Ok(Unit)
                /\ map' = map]_vars

C11_Witness ==
    \E p \in Procs :
        /\ op[p] = "set_schema"
        /\ pc[p] = "add_ret"
        /\ RanBetween(p, "delete_stream")
        /\ displaced[p] = None
        /\ ret[p] = Ok(Unit)
        /\ \A q \in Procs \ {p} : pc[q] = "idle"
        /\ map = [n \in {"a"} |-> [schema |-> <<116>>, alert_config |-> <<120>>,
                                   stats |-> Zero]]

\* The last call that returned Ok between the setter's read and its write was
\* this operation, whether it was called before or after the read.
ReturnedBetween(p, o) == between[p] # None /\ between[p][2].op = o

\* C12: lost update between setters.  A setter carries the other field as it
\* read it; when the other setter returns Ok between that read and the write,
\* the write that lands last still succeeds and puts the value read earlier
\* over the other caller's update: set_schema(S') leaves {S', A read earlier}
\* and set_alert(A') leaves {S read earlier, A'}, not {S', A'}.
C12_LostUpdate ==
    /\ [][\A p \in Procs :
            /\ op[p] = "set_schema" /\ Stepped(p, "alert_ret", "add_lock") =>
                   /\ arg'[p].alert_config = map[arg[p].name].alert_config
                   /\ arg'[p].schema = arg[p].schema
            /\ op[p] = "set_alert" /\ Stepped(p, "schema_ret", "add_lock") =>
                   /\ arg'[p].schema = map[arg[p].name].schema
                   /\ arg'[p].alert_config = arg[p].alert_config]_vars
    /\ [][\A p \in Procs :
            /\ Stepped(p, "add_insert", "add_ret")
            /\ \/ op[p] = "set_schema" /\ ReturnedBetween(p, "set_alert")
               \/ op[p] = "set_alert" /\ ReturnedBetween(p, "set_schema")
            => /\ arg[p].name \in DOMAIN map
               /\ ret'[p] = Ok(Unit)
               /\ map'[arg[p].name] = [schema |-> arg[p].schema,
                                       alert_config |-> arg[p].alert_config,
                                       stats |-> Zero]]_vars

\* From {"s", "x"}: set_alert("y") has returned Ok and left {"s", "y"}, and
\* set_schema("t"), which read "x" before, leaves {"t", "x"}.
C12_Witness ==
    \E p \in Procs :
        /\ op[p] = "set_schema"
        /\ pc[p] = "add_ret"
        /\ ReturnedBetween(p, "set_alert")
        /\ ret[p] = Ok(Unit)
        /\ \A q \in Procs \ {p} : pc[q] = "idle"
        /\ displaced[p] = Some([schema |-> <<115>>, alert_config |-> <<121>>,
                                stats |-> Zero])
        /\ map["a"] = [schema |-> <<116>>, alert_config |-> <<120>>, stats |-> Zero]

Listed(p) == {streams[p].listed[2][i] : i \in 1..Len(streams[p].listed[2])}

\* C14: load is additive / overwriting only.  No step of load removes an
\* entry or changes an entry other than the one of the stream its loop is
\* at; the loop visits the list in order, and at each listed occurrence the
\* entry for that name becomes a fresh record made of that occurrence's
\* fetches with default stats, whatever was there, an earlier occurrence's
\* record included; so when load returns every unlisted entry is as it was
\* and every listed entry is the last occurrence's fresh record.
C14_LoadAdditive ==
    /\ [][\A p \in Procs :
            op[p] = "load" /\ pc'[p] # pc[p] =>
                IF Stepped(p, "load_insert", "load_unlock")
                THEN /\ DOMAIN map' = DOMAIN map \cup {Stream(p)}
                     /\ \A n \in DOMAIN map \ {Stream(p)} : map'[n] = map[n]
                     /\ map'[Stream(p)] =
                            [schema |-> UnwrapOrDefault(fetched[p].schema),
                             alert_config |-> UnwrapOrDefault(fetched[p].alert_config),
                             stats |-> Zero]
                ELSE map' = map]_vars
    /\ [][\A p \in Procs :
            /\ Stepped(p, "load_try", "load_get_alert") => streams'[p].at = 1
            /\ Stepped(p, "load_unlock", "load_get_alert") =>
                   streams'[p].at = streams[p].at + 1
            /\ Stepped(p, "load_unlock", "load_ret") =>
                   streams[p].at = Len(streams[p].listed[2])]_vars
    /\ [](\A p \in Procs :
            /\ pc[p] \in {"load_get_alert", "load_get_schema", "load_lock",
                           "load_insert", "load_unlock"} =>
                   /\ streams[p].at \in 1..Len(streams[p].listed[2])
                   /\ \A i \in 1..(streams[p].at - 1) :
                          /\ streams[p].listed[2][i] \in DOMAIN map
                          /\ map[streams[p].listed[2][i]].stats = Zero
            /\ pc[p] = "load_ret" /\ IsOk(streams[p].listed) =>
                   \A n \in Listed(p) : n \in DOMAIN map /\ map[n].stats = Zero)

\* list_streams returned <<"a", "a">>: the second occurrence has displaced the
\* record of the first, and the unlisted "b" still has the stats it had.
C14_Witness ==
    \E p \in Procs :
        /\ pc[p] = "load_unlock"
        /\ streams[p].listed = Ok(<<"a", "a">>)
        /\ streams[p].at = 2
        /\ displaced[p] # None
        /\ displaced[p][2].schema # map["a"].schema
        /\ displaced[p][2].alert_config # map["a"].alert_config
        /\ map["a"].schema = UnwrapOrDefault(fetched[p].schema)
        /\ "b" \in DOMAIN map
        /\ map["b"].stats.size > 0

\* A storage call of load is in progress: list_streams, get_alert, get_schema.
Fetching(p) == pc[p] \in {"load_list", "load_get_alert", "load_get_schema"}

\* C15: load holds no guard of the registry lock while a storage call is in
\* progress: in each iteration the write guard is requested only after both
\* fetches have answered and is dropped before the next iteration's fetches
\* begin, so other threads can hold the lock during a fetch.
C15_LoadFetchUnlocked ==
    /\ [](\A p \in Procs :
            /\ Fetching(p) => writer # p /\ p \notin readers
            /\ op[p] = "load" => p \notin readers
            /\ op[p] = "load" /\ writer = p => pc[p] \in {"load_insert", "load_unlock"}
            /\ pc[p] \in {"load_lock", "load_insert"} =>
                   /\ fetched[p].alert_bytes # NoRet
                   /\ fetched[p].schema_bytes # NoRet)
    /\ [][\A p \in Procs :
            pc[p] = "load_unlock" /\ pc'[p] # pc[p] =>
                /\ writer = p
                /\ writer' = NoProc
                /\ fetched'[p] = NoFetch]_vars

\* In its second iteration load waits for get_schema while another thread is
\* inside update_stats, holding the write guard on an entry load put there.
C15_Witness ==
    \E p \in Procs, q \in Procs :
        /\ pc[p] = "load_get_schema"
        /\ streams[p].at = 2
        /\ writer = q
        /\ pc[q] = "upd_ret"
        /\ ret[q] = Ok(Unit)

\* C16: size is cumulative.  In every reachable state every entry's size is
\* the sum of the size deltas of the successful update_stats calls on its name
\* since the entry was last written by add_stream, set_schema, set_alert or
\* load (zero if none); each successful update_stats adds its delta to the
\* size it finds, so calls running concurrently lose no increment.
C16_SizeCumulative ==
    /\ [](\A n \in DOMAIN map : map[n].stats.size = total[n])
    /\ [][\A p \in Procs :
            Stepped(p, "upd_get", "upd_ret") /\ IsOk(ret'[p]) =>
                map'[arg[p].name].stats.size
                    = map[arg[p].name].stats.size + arg[p].size]_vars
    /\ [][\A p \in Procs :
            \/ Stepped(p, "add_insert", "add_ret")
            \/ Stepped(p, "load_insert", "load_unlock")
            => \E n \in DOMAIN map' :
                   /\ map'[n].stats.size = 0
                   /\ total'[n] = 0
                   /\ \A o \in DOMAIN map \ {n} : total'[o] = total[o]]_vars

\* Two update_stats(name, 1, _) calls under way together: the first has added
\* its delta to a fresh entry, the second waits for the guard with its own.
C16_Witness ==
    \E p \in Procs, q \in Procs :
        /\ pc[p] = "upd_ret"
        /\ ret[p] = Ok(Unit)
        /\ arg[p].size = 1
        /\ displaced[p] # None
        /\ displaced[p][2].stats.size = 0
        /\ pc[q] = "upd_lock"
        /\ arg[q].name = arg[p].name
        /\ arg[q].size = 1
        /\ map[arg[p].name].stats.size = 1
        /\ total[arg[p].name] = 1

\* C17: a successful update_stats(name, s, c) changes only the stats of the
\* entry for name: its schema and alert_config, the set of names in the
\* registry and every other name's entry are unchanged.
C17_UpdateStatsFrame ==
    [][\A p \in Procs :
          Stepped(p, "upd_get", "upd_ret") /\ IsOk(ret'[p]) =>
              /\ DOMAIN map' = DOMAIN map
              /\ arg[p].name \in DOMAIN map
              /\ map'[arg[p].name].schema = map[arg[p].name].schema
              /\ map'[arg[p].name].alert_config = map[arg[p].name].alert_config
              /\ \A n \in DOMAIN map \ {arg[p].name} : map'[n] = map[n]]_vars

C17_Witness ==
    \E p \in Procs :
        /\ pc[p] = "upd_ret"
        /\ ret[p] = Ok(Unit)
        /\ displaced[p] # None
        /\ displaced[p][2].stats # map[arg[p].name].stats
        /\ displaced[p][2].schema = map[arg[p].name].schema
        /\ displaced[p][2].alert_config = map[arg[p].name].alert_config
        /\ map[arg[p].name].schema # EmptyString
        /\ map[arg[p].name].alert_config # EmptyString
        /\ \E n \in DOMAIN map : n # arg[p].name /\ map[n].stats.size > 0

\* C18: no registry operation changes prev_compressed: every entry has
\* prev_compressed = 0 in every reachable state, so a successful
\* update_stats(name, _, c) leaves compressed_size = c, the delta of that call
\* alone: repeated calls overwrite the compressed total, they do not add up.
C18_PrevCompressedZero ==
    /\ [](\A n \in DOMAIN map : map[n].stats.prev_compressed = 0)
    /\ [][\A p \in Procs :
            Stepped(p, "upd_get", "upd_ret") /\ IsOk(ret'[p]) =>
                /\ map'[arg[p].name].stats.compressed_size = arg[p].compressed_size
                /\ map'[arg[p].name].stats.prev_compressed = 0]_vars

\* A second update_stats(name, 1, 1) on an entry load wrote: compressed_size
\* was 1 and is 1, while size went from 1 to 2.
C18_Witness ==
    \E p \in Procs :
        /\ pc[p] = "upd_ret"
        /\ ret[p] = Ok(Unit)
        /\ arg[p].compressed_size = 1
        /\ displaced[p] # None
        /\ displaced[p][2].stats = [size |-> 1, compressed_size |-> 1,
                                    prev_compressed |-> 0]
        /\ map[arg[p].name].stats = [size |-> 2, compressed_size |-> 1,
                                     prev_compressed |-> 0]
        /\ map[arg[p].name].schema = <<195, 169>>

\* A thread asks for a guard of the lock, and a thread holds one.
Requesting(p) ==
    pc[p] \in {"schema_lock", "alert_lock", "add_lock", "del_lock", "upd_lock"}
Holding(p) == p \in readers \/ writer = p

\* C19: deadlock freedom and completion.  No thread requests the lock while
\* it holds a guard (a setter has dropped the read guard of alert() /
\* schema() when add_stream requests the write guard); whenever a call is
\* under way some thread can take a step of its call; and under fair lock
\* granting every started schema, alert, set_schema, set_alert, add_stream,
\* delete_stream and update_stats call returns, with no guard held.
C19_Completion ==
    /\ [](\A p \in Procs : Requesting(p) => ~Holding(p))
    /\ []((\E p \in Procs : pc[p] # "idle") => \E p \in Procs : ENABLED Run(p))
    /\ \A p \in Procs : pc[p] # "idle" ~> (pc[p] = "idle" /\ ~Holding(p))

\* set_schema has read the alert and dropped its read guard, and waits for
\* the write guard that another thread's update_stats holds.
C19_Witness ==
    \E p \in Procs, q \in Procs :
        /\ op[p] = "set_schema"
        /\ pc[p] = "add_lock"
        /\ ~Holding(p)
        /\ op[q] = "update_stats"
        /\ writer = q

====
